---- MODULE Spec2Model ----
(***************************************************************************)
(* Hospital isometric view: the mock data service (generateHospitalData,   *)
(* updateBedStatus, updatePatientStatus), the visibility filter of the     *)
(* canvas and the state handlers of the HospitalIsometricView screen.      *)
(*                                                                         *)
(* Representation.  String ids are tuples: `bed-${f}-${j}` is              *)
(* <<"bed", f, j>>, `patient-${f}-${j}` is <<"patient", f, j>>,            *)
(* `floor-${f}` is <<"floor", f>>, `staff-${t}` is <<"staff", t>>.  null   *)
(* and undefined are NoId.  Lengths are in tenths (0.1 is 1).  A value of  *)
(* Math.random() is a percentage 0..99.                                    *)
(***************************************************************************)
EXTENDS Integers, Sequences, FiniteSets, TLC

(***************************************************************************)
(* Bounds of the model and constants of the program                        *)
(***************************************************************************)
\* period of the stream of Math.random() values a generation consumes
PatLen == 2
\* number of distinct entities whose status is edited between two generations
MaxEdits == 2
\* number of scene populations of the canvas
MaxPopulations == 3
\* number of state updates of the Hospital waiting for a render
MaxPending == 2
\* number of mousemove events the canvas receives
MaxMoves == 2

numFloors == 4
bedsPerFloor == 20
numStaff == 30
staffPerFloor == 8
totalInRow == 5
bedsPerRoom == 5
numFirstNames == 22
numLastNames == 21

\* values of Math.random() the model draws, as percentages
Percents == {10, 75, 95}

\* the tokens the 30 calls of generateId() return: all different, or the
\* first two equal (two draws of Math.random() may coincide)
DistinctIds == [i \in 0..(numStaff - 1) |-> i]
ClashingIds == [i \in 0..(numStaff - 1) |-> IF i = 1 THEN 0 ELSE i]

\* the random sources of the model: every periodic stream of draws with ids
\* that differ, and the constant streams with two ids that coincide
RandomSources ==
    [draws : [1..PatLen -> Percents], ids : {DistinctIds}]
    \cup [draws : {[i \in 1..PatLen |-> p] : p \in Percents}, ids : {ClashingIds}]

NoId == <<>>

BedStatus == {"available", "occupied", "cleaning"}
PatientStatus == {"critical", "stable", "discharged"}
AdmissionType == {"ICU", "General", "Emergency"}
FloorType == {"ICU", "Emergency", "General", "Surgery"}

(***************************************************************************)
(* Sequence helpers (Array.prototype.map / filter / find / includes)       *)
(***************************************************************************)
Range(s) == {s[i] : i \in 1..Len(s)}

\* the array of n elements whose i-th element is f[i]
ArrayOf(f, n) == SubSeq(f, 1, n)

MapSeq(s, F(_)) == ArrayOf([i \in 1..Len(s) |-> F(s[i])], Len(s))

Includes(s, x) == \E i \in 1..Len(s) : s[i] = x

\* index of the first element satisfying T, 0 when there is none
FindIndex(s, T(_)) ==
    LET hits == {i \in 1..Len(s) : T(s[i])}
    IN  IF hits = {} THEN 0 ELSE CHOOSE i \in hits : \A k \in hits : i <= k

Rotate(s, k) == ArrayOf([i \in 1..Len(s) |-> s[((i - 1 + k) % Len(s)) + 1]], Len(s))

Take(s, n) == SubSeq(s, 1, IF n < Len(s) THEN n ELSE Len(s))

Count(s, x) == Cardinality({i \in 1..Len(s) : s[i] = x})

Copies(x, n) == ArrayOf([i \in 1..n |-> x], n)

RECURSIVE Flatten(_)
Flatten(ss) == IF Len(ss) = 0 THEN <<>> ELSE Head(ss) \o Flatten(Tail(ss))

(***************************************************************************)
(* The data service: generation                                            *)
(***************************************************************************)
\* the k-th value of Math.random() of a generation
Draw(rnd, k) == rnd.draws[(k % PatLen) + 1]

generateId(rnd, i) == rnd.ids[i]

generatePosition(floorLevel, index) ==
    LET row == index \div totalInRow
        col == index % totalInRow
    IN  [x |-> col * 30 - totalInRow * 15,
         y |-> floorLevel * 40,
         z |-> row * 30 - 50]

generateBedStatus(rand) ==
    IF rand < 70 THEN "occupied"
    ELSE IF rand < 90 THEN "available"
    ELSE "cleaning"

generatePatientStatus(rand) ==
    IF rand < 20 THEN "critical"
    ELSE IF rand < 90 THEN "stable"
    ELSE "discharged"

\* a variant of generateFloorType in which two floors get the same type
generateFloorTypeRepeating(index) ==
    IF index = 0 THEN "Emergency"
    ELSE IF index = 1 THEN "ICU"
    ELSE IF index = 2 THEN "ICU"
    ELSE "General"

generateFloorType(index) ==
    IF index = 0 THEN "Emergency"
    ELSE IF index = 1 THEN "ICU"
    ELSE IF index = 2 THEN "Surgery"
    ELSE "General"

generatePatientName(r1, r2) ==
    <<(r1 * numFirstNames) \div 100, (r2 * numLastNames) \div 100>>

StaffTypeOf(i) == IF i < 10 THEN "Doctor" ELSE IF i < 25 THEN "Nurse" ELSE "Technician"

\* the staff list as pushed by the first loop (assignedPatientIds still empty)
NewStaff(rnd) ==
    ArrayOf([k \in 1..numStaff |->
        LET i == k - 1 IN
        [id |-> <<"staff", generateId(rnd, i)>>,
         name |-> <<StaffTypeOf(i), 65 + (i % 26)>>,
         type |-> StaffTypeOf(i),
         assignedPatientIds |-> <<>>,
         floor |-> generateFloorType(i \div staffPerFloor)]], numStaff)

\* number of the draw that decides bed j of floor floorIndex
DrawIndex(floorIndex, j) == floorIndex * bedsPerFloor + j

BedIdOf(floorIndex, j) == <<"bed", floorIndex, j>>
PatientIdOf(floorIndex, j) == <<"patient", floorIndex, j>>
\* a variant of FloorIdOf that numbers the floors from one
FloorIdOfOneBased(floorIndex) == <<"floor", floorIndex + 1>>

FloorIdOf(floorIndex) == <<"floor", floorIndex>>

NewBed(rnd, floorIndex, j) ==
    LET bedStatus == generateBedStatus(Draw(rnd, DrawIndex(floorIndex, j)))
    IN  [id |-> BedIdOf(floorIndex, j),
         position |-> generatePosition(floorIndex, j),
         status |-> bedStatus,
         floor |-> generateFloorType(floorIndex),
         room |-> <<"Room", (j \div bedsPerRoom) + 1>>,
         patientId |-> IF bedStatus = "occupied"
                       THEN PatientIdOf(floorIndex, j) ELSE NoId]

\* availableStaff.sort(() => 0.5 - Math.random()).slice(0, 1 + floor(rand*2)).map(s => s.id)
AssignedStaff(rnd, floorIndex, j) ==
    LET staff0 == NewStaff(rnd)
        floorType == generateFloorType(floorIndex)
        availableStaff == SelectSeq(staff0, LAMBDA s : s.floor = floorType)
        n == DrawIndex(floorIndex, j)
        shuffled == Rotate(availableStaff,
                           (Draw(rnd, n + 1) * Len(availableStaff)) \div 100)
        howMany == 1 + ((Draw(rnd, n + 1) * 2) \div 100)
    IN  MapSeq(Take(shuffled, howMany), LAMBDA s : s.id)

\* a variant of NewPatient that links every patient to the first bed of its floor
NewPatientOnFirstBed(rnd, floorIndex, j) ==
    LET n == DrawIndex(floorIndex, j)
    IN  [id |-> PatientIdOf(floorIndex, j),
         name |-> generatePatientName(Draw(rnd, n + 1), Draw(rnd, n + 2)),
         status |-> generatePatientStatus(Draw(rnd, n + 1)),
         assignedStaffIds |-> AssignedStaff(rnd, floorIndex, j),
         admissionType |-> generateFloorType(floorIndex),
         bedId |-> BedIdOf(floorIndex, 0)]

NewPatient(rnd, floorIndex, j) ==
    LET n == DrawIndex(floorIndex, j)
    IN  [id |-> PatientIdOf(floorIndex, j),
         name |-> generatePatientName(Draw(rnd, n + 1), Draw(rnd, n + 2)),
         status |-> generatePatientStatus(Draw(rnd, n + 1)),
         assignedStaffIds |-> AssignedStaff(rnd, floorIndex, j),
         admissionType |-> generateFloorType(floorIndex),
         bedId |-> BedIdOf(floorIndex, j)]

generateHospitalData(rnd) ==
    LET staff0 == NewStaff(rnd)
        beds == ArrayOf([n \in 1..(numFloors * bedsPerFloor) |->
                    NewBed(rnd, (n - 1) \div bedsPerFloor, (n - 1) % bedsPerFloor)],
                    numFloors * bedsPerFloor)
        occupied == SelectSeq(beds, LAMBDA b : b.status = "occupied")
        patients == MapSeq(occupied, LAMBDA b : NewPatient(rnd, b.id[2], b.id[3]))
        floors == ArrayOf([k \in 1..numFloors |->
                    [id |-> FloorIdOf(k - 1),
                     type |-> generateFloorType(k - 1),
                     name |-> <<generateFloorType(k - 1), "Floor">>,
                     level |-> k - 1,
                     beds |-> ArrayOf([j \in 1..bedsPerFloor |-> BedIdOf(k - 1, j - 1)],
                                      bedsPerFloor)]], numFloors)
        \* staff.find(s => s.id === staffId) is the first member with that id
        pushes(k) ==
            IF FindIndex(staff0, LAMBDA s : s.id = staff0[k].id) = k
            THEN Flatten(MapSeq(patients,
                    LAMBDA p : Copies(p.id, Count(p.assignedStaffIds, staff0[k].id))))
            ELSE <<>>
        staff == ArrayOf([k \in 1..numStaff |->
                    [staff0[k] EXCEPT !.assignedPatientIds = pushes(k)]], numStaff)
    IN  [floors |-> floors, beds |-> beds, patients |-> patients, staff |-> staff]

\* generateHospitalData over the random sources, computed once: pairs of a
\* random source and the Hospital generated from it
GeneratedTable == {<<rnd, generateHospitalData(rnd)>> : rnd \in RandomSources}

GeneratedFrom(rnd) == (CHOOSE entry \in GeneratedTable : entry[1] = rnd)[2]

(***************************************************************************)
(* The data service: the two updaters                                      *)
(***************************************************************************)
\* a variant of updateBedStatus that releases the bed's patient when the bed
\* stops being occupied
updateBedStatusReleasing(h, bedId, newStatus) ==
    LET updatedBeds == MapSeq(h.beds,
            LAMBDA bed : IF bed.id = bedId
                         THEN [bed EXCEPT !.status = newStatus,
                                          !.patientId = IF newStatus = "occupied"
                                                        THEN @ ELSE NoId]
                         ELSE bed)
    IN  [h EXCEPT !.beds = updatedBeds]

\* a variant of updateBedStatus in which a second click on the same status
\* puts the bed back to available
updateBedStatusToggling(h, bedId, newStatus) ==
    LET updatedBeds == MapSeq(h.beds,
            LAMBDA bed : IF bed.id = bedId
                         THEN [bed EXCEPT !.status = IF @ = newStatus
                                                     THEN "available" ELSE newStatus]
                         ELSE bed)
    IN  [h EXCEPT !.beds = updatedBeds]

\* a variant of updateBedStatus that takes the bed out of the list and pushes
\* the updated bed at its end
updateBedStatusReordering(h, bedId, newStatus) ==
    LET others == SelectSeq(h.beds, LAMBDA bed : bed.id # bedId)
        found == SelectSeq(h.beds, LAMBDA bed : bed.id = bedId)
        updated == MapSeq(found, LAMBDA bed : [bed EXCEPT !.status = newStatus])
    IN  [h EXCEPT !.beds = others \o updated]

updateBedStatus(h, bedId, newStatus) ==
    LET updatedBeds == MapSeq(h.beds,
            LAMBDA bed : IF bed.id = bedId
                         THEN [bed EXCEPT !.status = newStatus]
                         ELSE bed)
    IN  [h EXCEPT !.beds = updatedBeds]

\* a variant of updatePatientStatus that takes a discharged patient off the bed
updatePatientStatusReleasing(h, patientId, newStatus) ==
    LET updatedPatients == MapSeq(h.patients,
            LAMBDA patient : IF patient.id = patientId
                             THEN [patient EXCEPT !.status = newStatus,
                                                  !.bedId = IF newStatus = "discharged"
                                                            THEN NoId ELSE @]
                             ELSE patient)
    IN  [h EXCEPT !.patients = updatedPatients]

\* a variant of updatePatientStatus that compares only the numbers of the ids
updatePatientStatusBySuffix(h, patientId, newStatus) ==
    LET updatedPatients == MapSeq(h.patients,
            LAMBDA patient : IF Tail(patient.id) = Tail(patientId)
                             THEN [patient EXCEPT !.status = newStatus]
                             ELSE patient)
    IN  [h EXCEPT !.patients = updatedPatients]

updatePatientStatus(h, patientId, newStatus) ==
    LET updatedPatients == MapSeq(h.patients,
            LAMBDA patient : IF patient.id = patientId
                             THEN [patient EXCEPT !.status = newStatus]
                             ELSE patient)
    IN  [h EXCEPT !.patients = updatedPatients]

(***************************************************************************)
(* The canvas: the visibility filter (the visible* useMemo)                *)
(***************************************************************************)
\* a variant of VisibleSubset that leaves the patients unfiltered
VisibleSubsetAllPatients(h, floorId) ==
    LET allFloors == h.floors
        at == FindIndex(allFloors, LAMBDA f : f.id = floorId)
    IN  IF floorId # NoId /\ at # 0
        THEN LET currentFloor == allFloors[at]
                 beds == SelectSeq(h.beds, LAMBDA bed : bed.floor = currentFloor.type)
             IN  [visibleFloors |-> <<currentFloor>>,
                  visibleBeds |-> beds,
                  visiblePatients |-> h.patients]
        ELSE [visibleFloors |-> allFloors,
              visibleBeds |-> h.beds,
              visiblePatients |-> h.patients]

VisibleSubset(h, floorId) ==
    LET allFloors == h.floors
        at == FindIndex(allFloors, LAMBDA f : f.id = floorId)
    IN  IF floorId # NoId /\ at # 0
        THEN LET currentFloor == allFloors[at]
                 beds == SelectSeq(h.beds, LAMBDA bed : bed.floor = currentFloor.type)
                 bedPatientIds == MapSeq(SelectSeq(beds, LAMBDA bed : bed.patientId # NoId),
                                         LAMBDA bed : bed.patientId)
                 patients == SelectSeq(h.patients,
                                LAMBDA patient : Includes(bedPatientIds, patient.id))
             IN  [visibleFloors |-> <<currentFloor>>,
                  visibleBeds |-> beds,
                  visiblePatients |-> patients]
        ELSE [visibleFloors |-> allFloors,
              visibleBeds |-> h.beds,
              visiblePatients |-> h.patients]

\* ids of the groups the population puts in the interactive-objects table
InteractiveBedIds(h, floorId) ==
    {b.id : b \in Range(VisibleSubset(h, floorId).visibleBeds)}

InteractivePatientIds(h, floorId) ==
    LET v == VisibleSubset(h, floorId)
        bedIds == {b.id : b \in Range(v.visibleBeds)}
    IN  {p.id : p \in {q \in Range(v.visiblePatients) :
                         q.bedId # NoId /\ q.bedId \in bedIds}}

(***************************************************************************)
(* Inputs of the model                                                     *)
(***************************************************************************)
\* the beds and patients the pointer is moved over and clicked on
PointerBedIds == {BedIdOf(0, 3), BedIdOf(1, 0)}
PointerPatientIds == {PatientIdOf(0, 3), PatientIdOf(1, 0)}

\* ids the updaters are called with directly: known ids and ids of no entity
ArgBedIds == {BedIdOf(0, 3), BedIdOf(numFloors + 5, 9), PatientIdOf(0, 3)}
ArgPatientIds == {PatientIdOf(0, 3), PatientIdOf(numFloors + 5, 9), BedIdOf(0, 3)}

(***************************************************************************)
(* State                                                                   *)
(***************************************************************************)
VARIABLES
    hospital,           \* useState<Hospital>
    selectedFloor,      \* useState<string | null>
    selectedBedId,      \* useState<string | null>
    selectedPatientId,  \* useState<string | null>
    seed,               \* history: the random source the last generateHospitalData() drew from
    targeted,           \* history: ids the updaters were called with since then
    lastCall,           \* history: the last direct call of an updater
    canvasMounted,      \* the ThreeJSCanvas component is mounted
    sceneRef,           \* useSceneSetup: sceneRef.current, 0 for null, else the number of the bundle
    bundles,            \* number of scene/camera/renderer/controls bundles set up so far
    population,         \* number of scene populations so far
    tableState,         \* useState: interactiveObjects
    listeners,          \* the mousemove and click listeners on the container, with what they close
                        \* over: the camera, and the table and the population it is of
    populated,          \* what the cleanup of the last population effect closes over
    sceneObjects,       \* the children of the scenes: pairs of a bundle and an object
    loops,              \* populations whose animate() has an animation frame requested
    resizeOn,           \* bundles whose handleResize is a listener of window
    disposedRenderers,  \* bundles whose renderer was disposed
    undisposed,         \* populations whose geometries and materials are not disposed
    scaled,             \* objects with scale (1.05, 1.05, 1.05)
    lift,               \* steps of 0.1 of each object's position.y above its constructed height
    cursor,             \* document.body.style.cursor
    reported,           \* history: the last pointer event or animation frame, what it met and
                        \* called, and the table of the newest population at that time
    moves,              \* number of mousemove events so far
    pendingUpdates      \* the updaters passed to setHospital since the last render

screenVars == <<hospital, selectedFloor, selectedBedId, selectedPatientId,
                seed, targeted, lastCall>>

canvasVars == <<canvasMounted, sceneRef, bundles, population, tableState, listeners,
                populated, sceneObjects, loops, resizeOn, disposedRenderers,
                undisposed, scaled, lift, cursor, reported, moves>>

vars == <<screenVars, canvasVars, pendingUpdates>>

view == <<selectedFloor, selectedBedId, selectedPatientId>>

NoHospital == [floors |-> <<>>, beds |-> <<>>, patients |-> <<>>, staff |-> <<>>]
NoCall == [op |-> "none", id |-> NoId, status |-> "none", before |-> NoHospital]

NoObject == [gen |-> 0, id |-> NoId, type |-> "none"]
NoListeners == [camera |-> 0, table |-> {}, gen |-> 0, on |-> FALSE]
NoPopulation == [bundle |-> 0, table |-> {}]
NoReport == [event |-> "none", object |-> NoObject, calls |-> <<>>, newest |-> {}]
NoLift == [o \in {} |-> 0]

\* the canvas after its first render and effects: useSceneSetup has set up a
\* bundle; the population effect saw sceneSetup null and returned
InitCanvas ==
    /\ canvasMounted = TRUE
    /\ sceneRef = 1
    /\ bundles = 1
    /\ population = 0
    /\ tableState = {}
    /\ listeners = NoListeners
    /\ populated = NoPopulation
    /\ sceneObjects = {}
    /\ loops = {}
    /\ resizeOn = {1}
    /\ disposedRenderers = {}
    /\ undisposed = {}
    /\ scaled = {}
    /\ lift = NoLift
    /\ cursor = "auto"
    /\ reported = NoReport
    /\ moves = 0

\* the screen after its first render: useState(generateHospitalData())
InitScreen(sources) ==
    /\ \E entry \in GeneratedTable :
          entry[1] \in sources /\ seed = entry[1] /\ hospital = entry[2]
    /\ selectedFloor = NoId
    /\ selectedBedId = NoId
    /\ selectedPatientId = NoId
    /\ targeted = {}
    /\ lastCall = NoCall

Init == InitScreen(RandomSources) /\ InitCanvas /\ pendingUpdates = <<>>

(***************************************************************************)
(* The detail panel: what it shows for the current selection               *)
(***************************************************************************)
FindBed(h, bedId) ==
    LET at == FindIndex(h.beds, LAMBDA b : b.id = bedId)
    IN  IF at = 0 THEN NoId ELSE h.beds[at]

FindPatient(h, patientId) ==
    LET at == FindIndex(h.patients, LAMBDA p : p.id = patientId)
    IN  IF at = 0 THEN NoId ELSE h.patients[at]

PanelBed == IF selectedBedId # NoId THEN FindBed(hospital, selectedBedId) ELSE NoId

PanelPatient ==
    IF selectedPatientId # NoId
    THEN FindPatient(hospital, selectedPatientId)
    ELSE IF PanelBed # NoId /\ PanelBed.patientId # NoId
         THEN FindPatient(hospital, PanelBed.patientId)
         ELSE NoId

PanelShown ==
    /\ selectedBedId # NoId \/ selectedPatientId # NoId
    /\ PanelBed # NoId \/ PanelPatient # NoId

(***************************************************************************)
(* The screen: handlers of HospitalIsometricView                           *)
(***************************************************************************)
\* a variant of handleFloorChange that leaves the selection as it was
handleFloorChangeKeepingSelection(floorId) ==
    /\ selectedFloor' = floorId
    /\ UNCHANGED <<hospital, selectedBedId, selectedPatientId, seed, targeted, lastCall>>

handleFloorChange(floorId) ==
    /\ selectedFloor' = floorId
    /\ selectedBedId' = NoId
    /\ selectedPatientId' = NoId
    /\ UNCHANGED <<hospital, seed, targeted, lastCall>>

\* a variant of handleBedSelect that leaves the selected patient as it was
handleBedSelectOnly(bedId) ==
    /\ selectedBedId' = bedId
    /\ UNCHANGED <<hospital, selectedFloor, selectedPatientId, seed, targeted, lastCall>>

handleBedSelect(bedId) ==
    LET bed == FindBed(hospital, bedId)
    IN  /\ selectedBedId' = bedId
        /\ selectedPatientId' = IF bed # NoId /\ bed.patientId # NoId
                                THEN bed.patientId ELSE NoId
        /\ UNCHANGED <<hospital, selectedFloor, seed, targeted, lastCall>>

handlePatientSelect(patientId) ==
    LET patient == FindPatient(hospital, patientId)
    IN  /\ selectedPatientId' = patientId
        /\ selectedBedId' = IF patient # NoId /\ patient.bedId # NoId
                            THEN patient.bedId ELSE NoId
        /\ UNCHANGED <<hospital, selectedFloor, seed, targeted, lastCall>>

handleCloseDetail ==
    /\ selectedBedId' = NoId
    /\ selectedPatientId' = NoId
    /\ UNCHANGED <<hospital, selectedFloor, seed, targeted, lastCall>>

handleUpdateBedStatus(bedId, status) ==
    /\ Cardinality(targeted \cup {bedId}) <= MaxEdits
    /\ hospital' = updateBedStatus(hospital, bedId, status)
    /\ targeted' = targeted \cup {bedId}
    /\ UNCHANGED <<view, seed, lastCall>>

handleUpdatePatientStatus(patientId, status) ==
    /\ Cardinality(targeted \cup {patientId}) <= MaxEdits
    /\ hospital' = updatePatientStatus(hospital, patientId, status)
    /\ targeted' = targeted \cup {patientId}
    /\ UNCHANGED <<view, seed, lastCall>>

\* a variant of handleRefreshData that keeps the detail panel open
handleRefreshDataKeepingSelection ==
    /\ \E entry \in GeneratedTable : seed' = entry[1] /\ hospital' = entry[2]
    /\ targeted' = {}
    /\ UNCHANGED <<view, lastCall>>

handleRefreshData ==
    /\ \E entry \in GeneratedTable : seed' = entry[1] /\ hospital' = entry[2]
    /\ selectedBedId' = NoId
    /\ selectedPatientId' = NoId
    /\ targeted' = {}
    /\ UNCHANGED <<selectedFloor, lastCall>>

(***************************************************************************)
(* Events of the screen                                                    *)
(***************************************************************************)
\* the floor select of the control panel: "all" or one of hospital.floors
FloorSelect ==
    /\ \E floorId \in {NoId} \cup {f.id : f \in Range(hospital.floors)} :
          handleFloorChange(floorId)
    /\ UNCHANGED <<canvasVars, pendingUpdates>>

\* a click on the canvas whose ray hits a bed group
ClickBed ==
    /\ \E bedId \in PointerBedIds \cap InteractiveBedIds(hospital, selectedFloor) :
          handleBedSelect(bedId)
    /\ UNCHANGED <<canvasVars, pendingUpdates>>

\* a click on the canvas whose ray hits a patient group
ClickPatient ==
    /\ \E patientId \in PointerPatientIds \cap InteractivePatientIds(hospital, selectedFloor) :
          handlePatientSelect(patientId)
    /\ UNCHANGED <<canvasVars, pendingUpdates>>

\* the close button of the detail panel
ClickClose == PanelShown /\ handleCloseDetail /\ UNCHANGED <<canvasVars, pendingUpdates>>

\* the three bed-status buttons of the detail panel
ClickBedStatus ==
    /\ PanelShown
    /\ PanelBed # NoId
    /\ \E status \in BedStatus : handleUpdateBedStatus(PanelBed.id, status)
    /\ UNCHANGED <<canvasVars, pendingUpdates>>

\* the three patient-status buttons of the detail panel
ClickPatientStatus ==
    /\ PanelShown
    /\ PanelPatient # NoId
    /\ \E status \in PatientStatus : handleUpdatePatientStatus(PanelPatient.id, status)
    /\ UNCHANGED <<canvasVars, pendingUpdates>>

ClickRefresh == handleRefreshData /\ UNCHANGED <<canvasVars, pendingUpdates>>

Next ==
    \/ FloorSelect
    \/ ClickBed
    \/ ClickPatient
    \/ ClickClose
    \/ ClickBedStatus
    \/ ClickPatientStatus
    \/ ClickRefresh

Spec == Init /\ [][Next]_vars

(***************************************************************************)
(* The updaters called directly, with any id                               *)
(***************************************************************************)
CallUpdateBedStatus ==
    \E bedId \in ArgBedIds, status \in BedStatus :
        /\ Cardinality(targeted \cup {bedId}) <= MaxEdits
        /\ hospital' = updateBedStatus(hospital, bedId, status)
        /\ targeted' = targeted \cup {bedId}
        /\ lastCall' = [op |-> "updateBedStatus", id |-> bedId,
                        status |-> status, before |-> hospital]
        /\ UNCHANGED <<view, seed, canvasVars, pendingUpdates>>

CallUpdatePatientStatus ==
    \E patientId \in ArgPatientIds, status \in PatientStatus :
        /\ Cardinality(targeted \cup {patientId}) <= MaxEdits
        /\ hospital' = updatePatientStatus(hospital, patientId, status)
        /\ targeted' = targeted \cup {patientId}
        /\ lastCall' = [op |-> "updatePatientStatus", id |-> patientId,
                        status |-> status, before |-> hospital]
        /\ UNCHANGED <<view, seed, canvasVars, pendingUpdates>>

NextUpdaters == CallUpdateBedStatus \/ CallUpdatePatientStatus

SpecUpdaters == Init /\ [][NextUpdaters]_vars

(***************************************************************************)
(* The canvas: ThreeJSCanvas built from the hooks useSceneSetup,            *)
(* useHospitalObjects and useMouseInteraction                               *)
(***************************************************************************)
\* the groups the builders return: userData.id and userData.type are set by
\* the builder; gen tells the objects of one population from the next
createHospitalBed(gen, id) == [gen |-> gen, id |-> id, type |-> "bed"]

\* a variant of createPatient that tags the group as a bed
createPatientTaggedBed(gen, id) == [gen |-> gen, id |-> id, type |-> "bed"]

createPatient(gen, id) == [gen |-> gen, id |-> id, type |-> "patient"]

\* a colour 0xRRGGBB by its components
Rgb(r, g, b) == [r |-> r, g |-> g, b |-> b]

\* the status indicator the population adds to a bed group: a sphere for a
\* bed that is being cleaned (0xfbbd23) or is available (0x4ade80), none
\* for an occupied bed
statusIndicator(status) ==
    IF status = "cleaning" \/ status = "available"
    THEN [shown |-> TRUE,
          color |-> IF status = "cleaning" THEN Rgb(251, 189, 35) ELSE Rgb(74, 222, 128)]
    ELSE [shown |-> FALSE, color |-> Rgb(0, 0, 0)]

\* the floor slabs are plain meshes without userData
FloorMeshes(gen, h, floorId) ==
    {[gen |-> gen, id |-> f.id, type |-> "floor"] :
        f \in Range(VisibleSubset(h, floorId).visibleFloors)}

\* newInteractiveObjects as the population effect fills it: the table is
\* keyed by id, so it is the set of its groups
PopulatedObjects(gen, h, floorId) ==
    {createHospitalBed(gen, id) : id \in InteractiveBedIds(h, floorId)}
        \cup {createPatient(gen, id) : id \in InteractivePatientIds(h, floorId)}

\* of the groups built, the canvas model follows those of the beds and
\* patients under the pointer
NewInteractiveObjects(gen, h, floorId) ==
    {createHospitalBed(gen, id) : id \in InteractiveBedIds(h, floorId) \cap PointerBedIds}
        \cup {createPatient(gen, id) :
                 id \in InteractivePatientIds(h, floorId) \cap PointerPatientIds}

InScene(bundle, objects) == {[bundle |-> bundle, object |-> o] : o \in objects}

\* cleanup of the population effect: the listeners and the canvas element
\* are removed, and the interactive objects leave the scene
SceneAfterCleanup ==
    IF populated = NoPopulation THEN sceneObjects
    ELSE sceneObjects \ InScene(populated.bundle, populated.table)

\* one render of ThreeJSCanvas with the props h and floorId, followed by the
\* cleanups and effects it schedules.  The render reads sceneRef.current and
\* the interactiveObjects state; the handlers of useMouseInteraction close
\* over both.  The effect of useSceneSetup runs again when selectedFloor
\* changed; the population effect runs again after every render, as
\* handleClick is a new function whenever the parent or the state changed.
Commit(h, floorId, setupChanged) ==
    LET sceneSetup == sceneRef
        interactiveObjects == tableState
        gen == population + 1
        newInteractiveObjects == NewInteractiveObjects(gen, h, floorId)
    IN  /\ population < MaxPopulations
        /\ IF setupChanged
           THEN /\ bundles' = bundles + 1
                /\ sceneRef' = bundles + 1
                /\ resizeOn' = (resizeOn \ {sceneRef}) \cup {bundles + 1}
                /\ disposedRenderers' = disposedRenderers \cup {sceneRef}
           ELSE UNCHANGED <<bundles, sceneRef, resizeOn, disposedRenderers>>
        /\ IF sceneSetup = 0
           THEN /\ sceneObjects' = SceneAfterCleanup
                /\ listeners' = NoListeners
                /\ populated' = NoPopulation
                /\ UNCHANGED <<population, tableState, loops, undisposed>>
           ELSE /\ population' = gen
                /\ sceneObjects' = SceneAfterCleanup
                        \cup InScene(sceneSetup, FloorMeshes(gen, h, floorId))
                        \cup InScene(sceneSetup, newInteractiveObjects)
                /\ tableState' = newInteractiveObjects
                /\ listeners' = [camera |-> sceneSetup, table |-> interactiveObjects,
                                 gen |-> population, on |-> TRUE]
                /\ populated' = [bundle |-> sceneSetup, table |-> newInteractiveObjects]
                /\ loops' = loops \cup {gen}
                /\ undisposed' = undisposed \cup {gen}
        /\ UNCHANGED canvasMounted

\* the objects a ray of the pointer can meet first, among the objects the
\* ray caster is given: intersectObjects tests the objects it is given,
\* whether they are children of the scene or not
RayTargets(objects) ==
    {o \in objects : o.id \in PointerBedIds \cup PointerPatientIds}

AddLift(l, objects, d) ==
    LET dom == DOMAIN l \cup objects
        y == [o \in dom |-> (IF o \in DOMAIN l THEN l[o] ELSE 0)
                            + (IF o \in objects THEN d ELSE 0)]
    IN  [o \in {x \in dom : y[x] # 0} |-> y[o]]

LiftOf(l, o) == IF o \in DOMAIN l THEN l[o] ELSE 0

\* useMouseInteraction: handleMouseMove, with the nearest object met by the
\* ray, or NoObject
handleMouseMove(object) ==
    LET interactiveObjects == listeners.table
    IN  /\ IF object # NoObject
           THEN /\ cursor' = "pointer"
                /\ scaled' = IF object.type = "bed" THEN scaled \cup {object} ELSE scaled
                /\ lift' = IF object.type = "patient"
                           THEN AddLift(lift, {object}, 1) ELSE lift
           ELSE /\ cursor' = "auto"
                /\ scaled' = scaled \ {o \in interactiveObjects : o.type = "bed"}
                /\ lift' = AddLift(lift, {o \in interactiveObjects : o.type = "patient"}, -1)
        /\ moves < MaxMoves
        /\ moves' = moves + 1
        /\ reported' = [event |-> "mousemove", object |-> object, calls |-> <<>>,
                        newest |-> tableState]

\* a variant of handleClick that takes every tagged object for a bed
handleClickIgnoringType(object) ==
    IF object # NoObject
    THEN /\ handleBedSelect(object.id)
         /\ Commit(hospital, selectedFloor, FALSE)
         /\ reported' = [event |-> "click", object |-> object,
                         calls |-> <<[callback |-> "onBedSelect", id |-> object.id]>>,
                         newest |-> tableState]
    ELSE /\ reported' = [event |-> "click", object |-> object, calls |-> <<>>,
                         newest |-> tableState]
         /\ UNCHANGED <<screenVars, canvasMounted, sceneRef, bundles, population,
                        tableState, listeners, populated, sceneObjects, loops,
                        resizeOn, disposedRenderers, undisposed>>

\* useMouseInteraction: handleClick, with the nearest object met by the ray,
\* or NoObject; the callbacks are the handlers of the screen, and the state
\* they set makes the screen and the canvas render again
handleClick(object) ==
    IF object # NoObject /\ object.type = "bed"
    THEN /\ handleBedSelect(object.id)
         /\ Commit(hospital, selectedFloor, FALSE)
         /\ reported' = [event |-> "click", object |-> object,
                         calls |-> <<[callback |-> "onBedSelect", id |-> object.id]>>,
                         newest |-> tableState]
    ELSE IF object # NoObject /\ object.type = "patient"
    THEN /\ handlePatientSelect(object.id)
         /\ Commit(hospital, selectedFloor, FALSE)
         /\ reported' = [event |-> "click", object |-> object,
                         calls |-> <<[callback |-> "onPatientSelect", id |-> object.id]>>,
                         newest |-> tableState]
    ELSE /\ reported' = [event |-> "click", object |-> object, calls |-> <<>>,
                         newest |-> tableState]
         /\ UNCHANGED <<screenVars, canvasMounted, sceneRef, bundles, population,
                        tableState, listeners, populated, sceneObjects, loops,
                        resizeOn, disposedRenderers, undisposed>>

\* the control panel picks a floor: the screen renders, and the canvas with it
CanvasFloorSelect ==
    /\ canvasMounted
    /\ \E floorId \in {NoId} \cup {f.id : f \in Range(hospital.floors)} :
          /\ handleFloorChange(floorId)
          /\ Commit(hospital, floorId, floorId # selectedFloor)
    /\ UNCHANGED <<scaled, lift, cursor, reported, moves>>
    /\ UNCHANGED pendingUpdates

\* the state set by the population effect makes the canvas render again
CanvasRender ==
    /\ canvasMounted
    /\ populated # NoPopulation
    /\ Commit(hospital, selectedFloor, FALSE)
    /\ UNCHANGED <<screenVars, scaled, lift, cursor, reported, moves>>
    /\ UNCHANGED pendingUpdates

PointerMove ==
    /\ listeners.on
    /\ \E object \in RayTargets(listeners.table) \cup {NoObject} : handleMouseMove(object)
    /\ UNCHANGED <<screenVars, canvasMounted, sceneRef, bundles, population, tableState,
                   listeners, populated, sceneObjects, loops, resizeOn,
                   disposedRenderers, undisposed>>
    /\ UNCHANGED pendingUpdates

PointerClick ==
    /\ listeners.on
    /\ \E object \in RayTargets(listeners.table) \cup {NoObject} : handleClick(object)
    /\ UNCHANGED <<scaled, lift, cursor, moves>>
    /\ UNCHANGED pendingUpdates

\* the browser runs a requested animation frame: animate() requests the
\* next one and renders
AnimationFrame ==
    /\ \E gen \in loops :
          reported' = [event |-> "frame", object |-> [NoObject EXCEPT !.gen = gen],
                       calls |-> <<>>, newest |-> tableState]
    /\ UNCHANGED <<screenVars, canvasMounted, sceneRef, bundles, population, tableState,
                   listeners, populated, sceneObjects, loops, resizeOn,
                   disposedRenderers, undisposed, scaled, lift, cursor, moves>>
    /\ UNCHANGED pendingUpdates

\* the canvas is unmounted: the cleanups of both effects run
CanvasUnmount ==
    /\ canvasMounted
    /\ canvasMounted' = FALSE
    /\ sceneObjects' = SceneAfterCleanup
    /\ listeners' = NoListeners
    /\ populated' = NoPopulation
    /\ resizeOn' = resizeOn \ {sceneRef}
    /\ disposedRenderers' = disposedRenderers \cup {sceneRef}
    /\ UNCHANGED <<screenVars, sceneRef, bundles, population, tableState, loops,
                   undisposed, scaled, lift, cursor, reported, moves>>
    /\ UNCHANGED pendingUpdates

NextCanvas ==
    \/ CanvasFloorSelect
    \/ CanvasRender
    \/ PointerMove
    \/ PointerClick
    \/ AnimationFrame
    \/ CanvasUnmount

\* the canvas is followed for the Hospitals whose first draw makes bed 3 of
\* floor 0 or bed 0 of floor 1 an occupied one, so that a patient is shown
CanvasSources == {src \in RandomSources : src.ids = DistinctIds /\ src.draws[1] = 10}

InitOfCanvas == InitScreen(CanvasSources) /\ InitCanvas /\ pendingUpdates = <<>>

SpecCanvas == InitOfCanvas /\ [][NextCanvas]_vars

\* the refresh button: the screen renders with a newly generated Hospital,
\* and the canvas with it
CanvasRefresh ==
    /\ canvasMounted
    /\ handleRefreshData
    /\ Commit(hospital', selectedFloor, FALSE)
    /\ UNCHANGED <<scaled, lift, cursor, reported, moves>>
    /\ UNCHANGED pendingUpdates

\* the canvas under changes of the Hospital; a render that is scheduled
\* takes place
NextCanvasData ==
    \/ CanvasRefresh
    \/ CanvasRender
    \/ PointerClick

SpecCanvasData == InitOfCanvas /\ [][NextCanvasData]_vars /\ WF_vars(CanvasRender)

(***************************************************************************)
(* The Hospital state of the screen: setHospital with an updater            *)
(***************************************************************************)
\* a variant of ApplyUpdater for handlers that would pass to setHospital the
\* update of the Hospital of their render, not an updater
ApplyUpdaterToCaptured(prev, u) ==
    IF u.op = "updateBedStatus"
    THEN updateBedStatus(u.captured, u.id, u.status)
    ELSE updatePatientStatus(u.captured, u.id, u.status)

\* the updater a handler passes to setHospital, applied to the latest value:
\* prevHospital => updateBedStatus(prevHospital, bedId, status)
ApplyUpdater(prev, u) ==
    IF u.op = "updateBedStatus"
    THEN updateBedStatus(prev, u.id, u.status)
    ELSE updatePatientStatus(prev, u.id, u.status)

\* React applies the updaters of the queue in the order they were passed
RECURSIVE ProcessUpdates(_, _)
ProcessUpdates(prev, queue) ==
    IF queue = <<>> THEN prev
    ELSE ProcessUpdates(ApplyUpdater(prev, Head(queue)), Tail(queue))

\* handleUpdateBedStatus, up to the next render
IssueBedStatus ==
    /\ Len(pendingUpdates) < MaxPending
    /\ \E bedId \in PointerBedIds, status \in BedStatus :
          /\ Cardinality(targeted \cup {bedId}) <= MaxEdits
          /\ targeted' = targeted \cup {bedId}
          /\ pendingUpdates' = Append(pendingUpdates,
                  [op |-> "updateBedStatus", id |-> bedId, status |-> status,
                   captured |-> hospital])
    /\ UNCHANGED <<hospital, view, seed, lastCall, canvasVars>>

\* handleUpdatePatientStatus, up to the next render
IssuePatientStatus ==
    /\ Len(pendingUpdates) < MaxPending
    /\ \E patientId \in PointerPatientIds, status \in PatientStatus :
          /\ FindPatient(hospital, patientId) # NoId
          /\ Cardinality(targeted \cup {patientId}) <= MaxEdits
          /\ targeted' = targeted \cup {patientId}
          /\ pendingUpdates' = Append(pendingUpdates,
                  [op |-> "updatePatientStatus", id |-> patientId, status |-> status,
                   captured |-> hospital])
    /\ UNCHANGED <<hospital, view, seed, lastCall, canvasVars>>

\* the screen renders: useState returns the Hospital the queued updaters
\* lead to
RenderScreen ==
    /\ pendingUpdates # <<>>
    /\ hospital' = ProcessUpdates(hospital, pendingUpdates)
    /\ pendingUpdates' = <<>>
    /\ lastCall' = [op |-> "render",
                    id |-> [i \in 1..Len(pendingUpdates) |-> pendingUpdates[i].id],
                    status |-> "none", before |-> NoHospital]
    /\ UNCHANGED <<view, seed, targeted, canvasVars>>

NextBatched ==
    \/ IssueBedStatus
    \/ IssuePatientStatus
    \/ RenderScreen

SpecBatched == Init /\ [][NextBatched]_vars

(***************************************************************************)
(* Properties of the generated Hospital                                    *)
(***************************************************************************)
\* the Hospital in the state is the one generateHospitalData() returned: no
\* updater was applied to it since
FreshlyGenerated == targeted = {}

OccupiedBedsHavePatients(h) ==
    \A b \in Range(h.beds) :
        b.status = "occupied" =>
            /\ b.patientId # NoId
            /\ \E p \in Range(h.patients) : p.id = b.patientId /\ p.bedId = b.id

PatientsHaveOccupiedBeds(h) ==
    \A p \in Range(h.patients) :
        \E b \in Range(h.beds) :
            b.id = p.bedId /\ b.status = "occupied" /\ b.patientId = p.id

DistinctPatientIds(h) ==
    \A i, k \in 1..Len(h.patients) : h.patients[i].id = h.patients[k].id => i = k

\* C1: in every Hospital returned by generateHospitalData, every occupied bed
\* has a patientId that is the id of a patient of the Hospital whose bedId is
\* that bed, every patient's bedId is the id of an occupied bed whose patientId
\* is that patient, and the patients are as many as the occupied beds
C1_OccupiedBedsPatientsBijection ==
    FreshlyGenerated =>
        /\ OccupiedBedsHavePatients(hospital)
        /\ PatientsHaveOccupiedBeds(hospital)
        /\ DistinctPatientIds(hospital)
        /\ Len(hospital.patients) = Len(SelectSeq(hospital.beds,
                                        LAMBDA b : b.status = "occupied"))

\* a generated Hospital with an occupied bed, its patient, and a bed that is free
C1_Witness ==
    /\ FreshlyGenerated
    /\ \E b \in Range(hospital.beds) :
          /\ b.status = "occupied"
          /\ \E p \in Range(hospital.patients) : p.bedId = b.id
    /\ \E b \in Range(hospital.beds) : b.status # "occupied" /\ b.patientId = NoId

\* C2: in every state reachable by bed-status updates, patient-status updates
\* and refreshes, a bed has a patientId if and only if its status is occupied
C2_PatientIdIffOccupied ==
    \A b \in Range(hospital.beds) : (b.patientId # NoId) <=> (b.status = "occupied")

\* C3: in every Hospital returned by generateHospitalData, the lengths of the
\* floors' beds lists add up to the length of the beds list, and the floor type
\* of every bed is the type of exactly one floor
C3_FloorsPartitionBeds ==
    FreshlyGenerated =>
        /\ Len(Flatten(MapSeq(hospital.floors, LAMBDA f : f.beds))) = Len(hospital.beds)
        /\ \A b \in Range(hospital.beds) :
              Cardinality({i \in 1..Len(hospital.floors) :
                              hospital.floors[i].type = b.floor}) = 1

\* a generated Hospital with beds on floors of different types
C3_Witness ==
    /\ FreshlyGenerated
    /\ Len(hospital.floors) > 1
    /\ \E a, b \in Range(hospital.beds) : a.floor # b.floor
    /\ \A f \in Range(hospital.floors) : Len(f.beds) > 0

(***************************************************************************)
(* Properties of the updaters.  After a direct call, lastCall.before is    *)
(* the Hospital the updater was given and hospital is what it returned.    *)
(***************************************************************************)
BedCalled == lastCall.op = "updateBedStatus"
PatientCalled == lastCall.op = "updatePatientStatus"

\* s and t are lists of the same records, but that every element of s whose
\* id is id has its status replaced by status in t
SameButStatus(s, t, id, status) ==
    /\ Len(t) = Len(s)
    /\ \A i \in 1..Len(s) :
          /\ DOMAIN t[i] = DOMAIN s[i]
          /\ \A field \in DOMAIN s[i] :
                t[i][field] = IF field = "status" /\ s[i].id = id
                              THEN status ELSE s[i][field]

\* C4: updateBedStatus(h, id, s) returns a Hospital that differs from h only
\* in the status of the bed whose id is id: the other beds, the other fields
\* of that bed (patientId among them), the floors, the patients and the staff
\* are those of h
C4_UpdateBedStatusFrame ==
    BedCalled =>
        /\ DOMAIN hospital = DOMAIN lastCall.before
        /\ hospital.floors = lastCall.before.floors
        /\ hospital.patients = lastCall.before.patients
        /\ hospital.staff = lastCall.before.staff
        /\ SameButStatus(lastCall.before.beds, hospital.beds, lastCall.id, lastCall.status)

\* updateBedStatus has given an occupied bed with a patient another status
C4_Witness ==
    /\ BedCalled
    /\ FindBed(lastCall.before, lastCall.id) # NoId
    /\ FindBed(lastCall.before, lastCall.id).status = "occupied"
    /\ FindBed(hospital, lastCall.id).status = "cleaning"
    /\ FindBed(hospital, lastCall.id).patientId # NoId

\* C5: updatePatientStatus(h, id, s) returns a Hospital that differs from h
\* only in the status of the patient whose id is id: the other patients, the
\* other fields of that patient (bedId among them), the floors, the beds and
\* the staff are those of h
C5_UpdatePatientStatusFrame ==
    PatientCalled =>
        /\ DOMAIN hospital = DOMAIN lastCall.before
        /\ hospital.floors = lastCall.before.floors
        /\ hospital.beds = lastCall.before.beds
        /\ hospital.staff = lastCall.before.staff
        /\ SameButStatus(lastCall.before.patients, hospital.patients,
                         lastCall.id, lastCall.status)

\* updatePatientStatus has discharged a patient who lies in a bed
C5_Witness ==
    /\ PatientCalled
    /\ FindPatient(lastCall.before, lastCall.id) # NoId
    /\ FindPatient(lastCall.before, lastCall.id).status # "discharged"
    /\ FindPatient(hospital, lastCall.id).status = "discharged"
    /\ FindPatient(hospital, lastCall.id).bedId # NoId

\* C6: the updaters are idempotent: applying an updater again, with the same
\* id and status, to the Hospital it returned gives that Hospital again
C6_UpdatersIdempotent ==
    /\ BedCalled =>
          updateBedStatus(hospital, lastCall.id, lastCall.status) = hospital
    /\ PatientCalled =>
          updatePatientStatus(hospital, lastCall.id, lastCall.status) = hospital

\* the first application of an updater changed the Hospital it was given
C6_Witness ==
    /\ BedCalled \/ PatientCalled
    /\ hospital # lastCall.before
    /\ lastCall.status \notin {"available", "stable"}

\* C7: an updater called with an id that is the id of no bed (of no patient)
\* completes and returns a Hospital equal to the one it was given
C7_UnknownIdNoOp ==
    /\ BedCalled /\ FindBed(lastCall.before, lastCall.id) = NoId
          => hospital = lastCall.before
    /\ PatientCalled /\ FindPatient(lastCall.before, lastCall.id) = NoId
          => hospital = lastCall.before

\* updatePatientStatus was called with the id of a bed whose patient has
\* another status than the one asked for
C7_Witness ==
    /\ PatientCalled
    /\ lastCall.id = BedIdOf(0, 3)
    /\ FindPatient(lastCall.before, lastCall.id) = NoId
    /\ FindPatient(lastCall.before, PatientIdOf(0, 3)) # NoId
    /\ FindPatient(lastCall.before, PatientIdOf(0, 3)).status # lastCall.status

\* h with the status of every bed and patient whose id is in ids blotted out
WithoutStatusOf(h, ids) ==
    [h EXCEPT
        !.beds = MapSeq(h.beds,
                    LAMBDA b : IF b.id \in ids THEN [b EXCEPT !.status = "?"] ELSE b),
        !.patients = MapSeq(h.patients,
                    LAMBDA p : IF p.id \in ids THEN [p EXCEPT !.status = "?"] ELSE p)]

\* C8: after any sequence of updateBedStatus and updatePatientStatus calls on
\* a generated Hospital, the floors, beds, patients and staff are those of the
\* generated Hospital, in number, order, ids and links; only the statuses of
\* the beds and patients the calls named may differ
C8_UpdatesKeepStructure ==
    WithoutStatusOf(hospital, targeted) = WithoutStatusOf(GeneratedFrom(seed), targeted)

\* a bed and its patient have both been given another status than generated
C8_Witness ==
    /\ targeted = {BedIdOf(0, 3), PatientIdOf(0, 3)}
    /\ FindBed(hospital, BedIdOf(0, 3)).status
          # FindBed(GeneratedFrom(seed), BedIdOf(0, 3)).status
    /\ FindPatient(hospital, PatientIdOf(0, 3)) # NoId
    /\ FindPatient(hospital, PatientIdOf(0, 3)).status
          # FindPatient(GeneratedFrom(seed), PatientIdOf(0, 3)).status

(***************************************************************************)
(* Properties of the visibility filter                                     *)
(***************************************************************************)
FloorIds(h) == {f.id : f \in Range(h.floors)}

FloorWithId(h, floorId) == CHOOSE f \in Range(h.floors) : f.id = floorId

\* C9: with a selected floor id that names a floor of the Hospital, the
\* visible floors are exactly that floor, the visible beds exactly the beds
\* whose floor type is that floor's type, and the visible patients exactly the
\* patients whose id is the patientId of a visible bed; with no floor selected
\* all floors, beds and patients are visible
C9_VisibleSubsetContract ==
    LET v == VisibleSubset(hospital, selectedFloor)
    IN  /\ selectedFloor = NoId =>
              /\ v.visibleFloors = hospital.floors
              /\ v.visibleBeds = hospital.beds
              /\ v.visiblePatients = hospital.patients
        /\ selectedFloor \in FloorIds(hospital) =>
              LET floor == FloorWithId(hospital, selectedFloor)
                  bedsOfType == SelectSeq(hospital.beds, LAMBDA b : b.floor = floor.type)
              IN  /\ v.visibleFloors = <<floor>>
                  /\ v.visibleBeds = bedsOfType
                  /\ v.visiblePatients =
                        SelectSeq(hospital.patients,
                            LAMBDA p : \E b \in Range(bedsOfType) : b.patientId = p.id)

\* a floor is selected, and the Hospital has patients on it and patients elsewhere
C9_Witness ==
    /\ selectedFloor \in FloorIds(hospital)
    /\ LET v == VisibleSubset(hospital, selectedFloor)
       IN  /\ Len(v.visiblePatients) > 0
           /\ Len(v.visiblePatients) < Len(hospital.patients)
           /\ Len(v.visibleBeds) < Len(hospital.beds)

\* C10: the generator creates 4 floors of 20 beds each, 80 beds, and the
\* filter with floor id 'floor-1' yields exactly the 20 beds whose floor is
\* 'ICU' and exactly the patients who occupy those beds
C10_FloorOneIsTheIcu ==
    FreshlyGenerated =>
        /\ Len(hospital.floors) = 4
        /\ \A f \in Range(hospital.floors) : Len(f.beds) = 20
        /\ Len(hospital.beds) = 80
        /\ LET v == VisibleSubset(hospital, <<"floor", 1>>)
               icuBeds == {b \in Range(hospital.beds) : b.floor = "ICU"}
           IN  /\ Len(v.visibleBeds) = 20
               /\ Range(v.visibleBeds) = icuBeds
               /\ Cardinality(icuBeds) = 20
               /\ Range(v.visiblePatients) =
                     {p \in Range(hospital.patients) :
                         \E b \in icuBeds : b.id = p.bedId}
               /\ Len(v.visiblePatients) = Cardinality(Range(v.visiblePatients))

\* a generated Hospital with patients in the ICU and patients on other floors
C10_Witness ==
    /\ FreshlyGenerated
    /\ \E p \in Range(hospital.patients) : p.admissionType = "ICU"
    /\ \E p \in Range(hospital.patients) : p.admissionType # "ICU"
    /\ \E b \in Range(hospital.beds) : b.floor = "ICU" /\ b.patientId = NoId

C16_RefreshRegenerates ==
    [][ClickRefresh =>
          /\ hospital' = GeneratedFrom(seed')
          /\ selectedBedId' = NoId
          /\ selectedPatientId' = NoId]_vars

\* the state refresh acts on: an edited Hospital, which is no generated one,
\* with a bed and its patient selected
C16_Witness ==
    /\ targeted # {}
    /\ \A entry \in GeneratedTable : hospital # entry[2]
    /\ selectedBedId # NoId
    /\ selectedPatientId # NoId
    /\ ENABLED ClickRefresh

(***************************************************************************)
(* Properties of the staff assignment                                      *)
(***************************************************************************)
AssignmentOf(h, p) ==
    /\ Len(p.assignedStaffIds) \in {1, 2}
    /\ \A i, k \in 1..Len(p.assignedStaffIds) :
          p.assignedStaffIds[i] = p.assignedStaffIds[k] => i = k
    /\ \A i \in 1..Len(p.assignedStaffIds) :
          \E m \in Range(h.staff) :
              /\ m.id = p.assignedStaffIds[i]
              /\ m.floor = FindBed(h, p.bedId).floor
    /\ \A m \in Range(h.staff) :
          Includes(m.assignedPatientIds, p.id) <=> Includes(p.assignedStaffIds, m.id)

\* C20: every patient of a generated Hospital has 1 or 2 assigned staff ids,
\* all distinct, each the id of a staff member of the floor type of the
\* patient's bed; and a staff member lists a patient in assignedPatientIds
\* exactly when the patient lists the staff member in assignedStaffIds
C20_StaffAssignment ==
    FreshlyGenerated => \A p \in Range(hospital.patients) : AssignmentOf(hospital, p)
(***************************************************************************)
(* Properties of the canvas                                                *)
(***************************************************************************)
PointerReport == reported.event \in {"mousemove", "click"}

\* C11: the identifier a hover or a click reports is the identifier of an
\* object of the interactive-objects table of the most recent population
C11_NoStaleHits ==
    PointerReport /\ reported.object # NoObject
        => \E o \in reported.newest : o.id = reported.object.id

\* C12: a click that meets an interactive object calls one selection
\* callback once, onBedSelect(id) for an object tagged 'bed' and
\* onPatientSelect(id) for one tagged 'patient', and the screen selects that
\* id; a click that meets nothing calls no callback and selects nothing
C12_ClickInvokesOneCallback ==
    [][PointerClick =>
          LET object == reported'.object
          IN  /\ reported'.event = "click"
              /\ object \in RayTargets(listeners.table) \cup {NoObject}
              /\ object = NoObject =>
                     reported'.calls = <<>> /\ UNCHANGED screenVars
              /\ object.type = "bed" =>
                     /\ reported'.calls = <<[callback |-> "onBedSelect", id |-> object.id]>>
                     /\ selectedBedId' = object.id
              /\ object.type = "patient" =>
                     /\ reported'.calls = <<[callback |-> "onPatientSelect", id |-> object.id]>>
                     /\ selectedPatientId' = object.id]_vars

C12_Witness ==
    /\ reported.event = "click"
    /\ reported.object.type = "patient"
    /\ reported.calls = <<[callback |-> "onPatientSelect", id |-> reported.object.id]>>
    /\ selectedPatientId = reported.object.id

\* the objects of the handlers' table that carry the hover affordance
Hovered == {o \in listeners.table : o \in scaled \/ LiftOf(lift, o) > 0}

\* C13: when the pointer moves from one tagged object to another, the object
\* hovered before is returned to its base scale and height, so at most one
\* interactive object carries the hover affordance at any time
C13_OneHoverAffordance == Cardinality(Hovered) <= 1

\* C14: after a pointer move that meets no interactive object the cursor is
\* reset and every interactive object has scale (1, 1, 1) and the height it
\* was constructed with
C14_NoHitResets ==
    reported.event = "mousemove" /\ reported.object = NoObject
        => /\ cursor = "auto"
           /\ \A o \in listeners.table : o \notin scaled /\ LiftOf(lift, o) = 0

\* C17: after a population the scene it went to holds only the objects of
\* that population: the floor, bed and patient objects added by earlier
\* populations have been removed from it
C17_OnlyNewestPopulation ==
    populated # NoPopulation
        => \A e \in sceneObjects :
              e.bundle = populated.bundle => e.object.gen = population

\* C18: teardown cancels the render loop: an animation frame callback that
\* runs is the one of the newest population of a mounted canvas, never one
\* of a population that was torn down
C18_TeardownStopsRenderLoop ==
    [][AnimationFrame => canvasMounted /\ reported'.object.gen = population]_vars

\* C19: after teardown no geometry or material created for the scene is
\* left undisposed, and every renderer set up has been released
C19_TeardownReleasesGpu ==
    ~canvasMounted => undisposed = {} /\ disposedRenderers = 1..bundles

(***************************************************************************)
(* Properties of the status indicator                                      *)
(***************************************************************************)
\* the name of a colour, by the order of its components
ColorName(c) ==
    IF c.g > c.r /\ c.g > c.b THEN "green"
    ELSE IF c.b > c.r /\ c.b > c.g THEN "blue"
    ELSE IF c.r > c.g /\ c.g > c.b THEN "orange"
    ELSE "other"

StatusColorTable == [available |-> "green", occupied |-> "orange", cleaning |-> "blue"]

\* C21: every bed has a status indicator whose colour depends on the bed's
\* status alone: green when available, orange when occupied, blue when
\* being cleaned
C21_IndicatorColorByStatus ==
    \A bed \in Range(hospital.beds) :
        LET indicator == statusIndicator(bed.status)
        IN  indicator.shown /\ ColorName(indicator.color) = StatusColorTable[bed.status]

(***************************************************************************)
(* Properties of the floor filter and of the population                    *)
(***************************************************************************)
\* C22: changing the floor, to a floor or to all floors, makes selectedFloor
\* the value asked for, makes selectedBedId and selectedPatientId null and
\* leaves the Hospital as it is
C22_FloorChangeResetsSelection ==
    [][\A floorId \in {NoId} \cup FloorIds(hospital) :
          handleFloorChange(floorId) /\ UNCHANGED <<canvasVars, pendingUpdates>>
              => /\ selectedFloor' = floorId
                 /\ selectedBedId' = NoId
                 /\ selectedPatientId' = NoId
                 /\ hospital' = hospital]_vars

C22_Witness ==
    /\ selectedFloor \in FloorIds(hospital)
    /\ selectedBedId = NoId
    /\ selectedPatientId = NoId
    /\ targeted # {}

\* C23: the table a population builds has one entry for each visible bed
\* and one for each patient whose bed is visible, and no other; the group
\* of an entry carries the entity's id and the tag of its kind
C23_TableIsTheVisibleEntities ==
    LET table == PopulatedObjects(1, hospital, selectedFloor)
        shown(bed) == selectedFloor = NoId
                          \/ bed.floor = FloorWithId(hospital, selectedFloor).type
        bedIds == {bed.id : bed \in {b \in Range(hospital.beds) : shown(b)}}
        patientIds == {p.id : p \in {q \in Range(hospital.patients) : q.bedId \in bedIds}}
    IN  /\ {o \in table : o.type = "bed"} = {createHospitalBed(1, id) : id \in bedIds}
        /\ {o \in table : o.type = "patient"} = {createPatient(1, id) : id \in patientIds}
        /\ \A o \in table : o.type \in {"bed", "patient"}
        /\ Cardinality(table) = Cardinality(bedIds) + Cardinality(patientIds)
        /\ NewInteractiveObjects(1, hospital, selectedFloor)
               = {o \in table : o.id \in PointerBedIds \cup PointerPatientIds}

C23_Witness ==
    /\ selectedFloor \in FloorIds(hospital)
    /\ targeted # {}
    /\ LET table == PopulatedObjects(1, hospital, selectedFloor)
       IN  /\ \E o \in table : o.type = "patient"
           /\ Cardinality(table) < Len(hospital.beds) + Len(hospital.patients)
           /\ \E b \in Range(hospital.beds) :
                  /\ b.status # "occupied" /\ b.patientId # NoId
                  /\ createPatient(1, b.patientId) \in table

(***************************************************************************)
(* Further properties of the generated Hospital                            *)
(***************************************************************************)
\* C28: every patient generateHospitalData produces has an admissionType of
\* the declared set ICU, General, Emergency
C28_AdmissionTypeDeclared ==
    FreshlyGenerated =>
        \A p \in Range(hospital.patients) : p.admissionType \in AdmissionType

(***************************************************************************)
(* Further properties of the canvas                                        *)
(***************************************************************************)
\* C24: hover does not accumulate: whatever the pointer moves, a patient
\* group is at the height it was constructed with or 0.1 above it, never
\* higher and never lower
C24_HoverNotCumulative == \A o \in DOMAIN lift : lift[o] \in {0, 1}

\* C26: when a floor and a bed are selected, the bed is a bed of that floor
C26_SelectedBedOnSelectedFloor ==
    /\ selectedFloor \in FloorIds(hospital)
    /\ selectedBedId # NoId
    /\ FindBed(hospital, selectedBedId) # NoId
    => FindBed(hospital, selectedBedId).floor = FloorWithId(hospital, selectedFloor).type

\* C29: a population uses the bundle useSceneSetup built for the current
\* theme and floor, never one whose renderer has been disposed
C29_BundleIsCurrent ==
    populated # NoPopulation
        => populated.bundle = sceneRef /\ populated.bundle \notin disposedRenderers

\* C25: a selected bed id is the id of a bed of the current Hospital, a
\* selected patient id the id of one of its patients, and when both are
\* selected the bed's patientId is the selected patient id
C25_SelectionNamesEntities ==
    /\ selectedBedId # NoId => FindBed(hospital, selectedBedId) # NoId
    /\ selectedPatientId # NoId => FindPatient(hospital, selectedPatientId) # NoId
    /\ selectedBedId # NoId /\ selectedPatientId # NoId
           => FindBed(hospital, selectedBedId).patientId = selectedPatientId

\* the handlers in use are those of the newest table: the population effect
\* has no changed dependency and does not run again
Quiescent == listeners.on /\ listeners.gen = population

\* every population leaves listeners of the table before it, and the state
\* it stored makes the canvas render and populate once more; this is the
\* step of the cycle, whatever the number of populations so far
PopulationRunsAgain ==
    populated # NoPopulation =>
        /\ ~Quiescent
        /\ population < MaxPopulations => ENABLED CanvasRender

LastFor(queue, i) ==
    \A j \in (i + 1)..Len(queue) : queue[j].op # queue[i].op \/ queue[j].id # queue[i].id

\* C27: no status update is lost: when several updates are issued before
\* the screen renders, the Hospital of the next render has, for each entity
\* updated, the status of the last update issued for it, and is otherwise
\* the Hospital of before
C27_NoLostUpdate ==
    [][RenderScreen =>
          /\ \A i \in 1..Len(pendingUpdates) :
                LET u == pendingUpdates[i]
                IN  LastFor(pendingUpdates, i) =>
                       IF u.op = "updateBedStatus"
                       THEN FindBed(hospital', u.id).status = u.status
                       ELSE FindPatient(hospital', u.id).status = u.status
          /\ WithoutStatusOf(hospital', {u.id : u \in Range(pendingUpdates)})
                 = WithoutStatusOf(hospital, {u.id : u \in Range(pendingUpdates)})]_vars

C27_Witness ==
    /\ lastCall.op = "render"
    /\ pendingUpdates = <<>>
    /\ \E bedId \in PointerBedIds, patientId \in PointerPatientIds :
          /\ Range(lastCall.id) = {bedId, patientId}
          /\ FindBed(hospital, bedId).status # FindBed(GeneratedFrom(seed), bedId).status
          /\ FindPatient(hospital, patientId).status
                 # FindPatient(GeneratedFrom(seed), patientId).status
====
